---- MODULE Spec2Model ----
(***************************************************************************)
(* A state-machine model of AD_MotionDirector_train.process (src/nodes.py): *)
(* the configuration checks, the training loop with its role masking,      *)
(* adapter gating, backward / optimizer / schedule steps, the shared       *)
(* gradient scaler, checkpointing and validation, and the helper           *)
(* scale_loras.  One action per block of the procedure; pc is the position *)
(* of the single thread of control.                                        *)
(***************************************************************************)
EXTENDS Integers, Sequences, FiniteSets, TLC

(* ---------------------------------------------------------------- bounds *)
\* largest value drawn for the inputs max_train_steps / max_train_epoch
MaxTrainSteps == 3
\* largest value drawn for the inputs checkpointing_steps / checkpointing_epochs
MaxCheckpointing == 2
\* largest spatial ensemble size drawn for spatial_lora_num
MaxSpatialLoraNum == 2
\* sublayers of the backbone that carry the spatial adapters of one member
NumSpatialSites == 2
\* sublayers of the backbone that carry a temporal adapter
NumTemporalSites == 2
\* the longest clip, in frames, a helper function is called with by itself
MaxFrames == 3

(* ----------------------------------------------------- program constants *)
\* the sentinel of an option that is not set (INPUT_TYPES: "min": -1)
Unset == -1
\* the only value the inner loop variable `step` takes: range(batch_size), batch_size = 1
step == 0
\* validation_steps = 25
validation_steps == 25
\* validation_steps_tuple = [2, 25]
validation_steps_tuple == {2, 25}
\* adapter scales are kept in tenths: 0. is 0, 1.0 is 10
ScaleOff == 0
ScaleOn == 10
\* validation_spatial_scale = 0.5, in tenths
validation_spatial_scale == 5
\* cfg_random_null_text_ratio = 0, in tenths like the draws of random.random()
cfg_random_null_text_ratio == 0
\* random_hflip_img = -1
random_hflip_img == -1
\* the last dimension of an IMAGE input: images are (frames, height, width, 3)
ImageChannels == 3
\* beta = 1
beta == 1
\* alpha = (beta ** 2 + 1) ** 0.5, in thousandths
alpha_milli == 1414

VARIABLES
    pc,                   \* position of the thread of control in process()
    err,                  \* the exception that ended the run, "none" while there is none
    args,                 \* the arguments process() was called with
    max_train_steps,      \* local, reassigned at line 411
    checkpointing_steps,  \* local, reassigned at line 415
    train_temporal_lora,  \* line 328
    spatial_lora_num,     \* line 470
    epoch,                \* loop variable of line 528
    global_step,          \* line 515, 693
    mask_spatial_lora,    \* line 547
    mask_temporal_lora,   \* lines 542-545
    loss_spatial,         \* "unbound" | "None" | "tensor"
    loss_temporal,        \* "unbound" | "None" | "tensor"
    scale,                \* adapter -> its .scale attribute
    grad,                 \* optimizer -> TRUE when its parameters hold a gradient
    opt_steps,            \* optimizer -> number of scaler.step(optimizer) calls
    sched_steps,          \* optimizer -> number of lr_scheduler.step() calls
    scaler_updates,       \* number of scaler.update() calls
    events,               \* what the current training step has done so far, in order
    gated,                \* adapter -> the value of the last uniform gate call on it
    fwd_scale,            \* adapter -> the scale the last forward pass read
    saved,                \* checkpoint artifacts written: <<role, step>>
    samples,              \* <<>> while unbound, else <<g>>: the sample clip of the validation at step g
    gradient_checkpointing_on, \* unet's gradient checkpointing flag
    io_failed,            \* TRUE once a save has raised
    use_text_augmenter,   \* line 335
    text_prompt,          \* the one-element list text_prompt: [null, augments]
    fwd_used,             \* role -> the optimizers whose adapters its forward pass of this step read at non-zero scale
    call,                 \* a helper function called by itself: its arguments
    ret                   \* ... and what it returned

vars == <<pc, err, args, max_train_steps, checkpointing_steps, train_temporal_lora,
          spatial_lora_num, epoch, global_step, mask_spatial_lora, mask_temporal_lora,
          loss_spatial, loss_temporal, scale, grad, opt_steps, sched_steps,
          scaler_updates, events, gated, fwd_scale, saved, samples,
          gradient_checkpointing_on, io_failed, use_text_augmenter, text_prompt,
          fwd_used, call, ret>>

(* ------------------------------------------------------------- adapters *)
\* The spatial adapters in the order extract_lora_child_module lists them: the
\* flat list scale_loras strides through ("Assumed enumerator"), member
\* i % spatial_lora_num at index i.
SpatialLoras(num) == [i \in 1..(NumSpatialSites * num) |-> <<"spatial", i - 1>>]

\* The temporal adapters: injected only when temporal training is enabled.
TemporalLoras(enabled) ==
    IF enabled THEN [i \in 1..NumTemporalSites |-> <<"temporal", i - 1>>] ELSE <<>>

\* extract_lora_child_module(unet, target_replace_module=...): the adapters
\* below the modules of the given role.
extract_lora_child_module(role) ==
    IF role = "spatial" THEN SpatialLoras(spatial_lora_num)
    ELSE TemporalLoras(train_temporal_lora)

Range(s) == {s[i] : i \in DOMAIN s}

Adapters == Range(SpatialLoras(spatial_lora_num)) \cup Range(TemporalLoras(train_temporal_lora))

RoleOf(a) == a[1]

\* the ensemble member a spatial adapter belongs to
MemberOf(a) == a[2] % spatial_lora_num

\* the optimizers (and their schedules): one per spatial member, one temporal
Optimizers ==
    {<<"spatial", m>> : m \in 0..(spatial_lora_num - 1)}
        \cup (IF train_temporal_lora THEN {<<"temporal", 0>>} ELSE {})

\* scale_loras(lora_list, scale, step=None, spatial_lora_num=None): the scale
\* attributes after the call. An optional argument is the empty set when not
\* given, a singleton otherwise. Python's list indices start at 0.
scale_loras_unstrided(cur, lora_list, value, stepArg, numArg) ==
    [a \in DOMAIN cur |-> IF a \in Range(lora_list) THEN value ELSE cur[a]]

scale_loras_first_only(cur, lora_list, value, stepArg, numArg) ==
    [a \in DOMAIN cur |-> IF Len(lora_list) > 0 /\ lora_list[1] = a THEN value ELSE cur[a]]

scale_loras(cur, lora_list, value, stepArg, numArg) ==
    LET strided == stepArg # {} /\ numArg # {}
        num == CHOOSE n \in numArg : TRUE
        \* range(0, len(lora_list), spatial_lora_num)  /  the list itself
        process_list ==
            IF strided
            THEN {i \in 0..(Len(lora_list) - 1) : i % num = 0}
            ELSE 0..(Len(lora_list) - 1)
    IN [a \in DOMAIN cur |->
            IF \E i \in process_list : lora_list[i + 1] = a THEN value ELSE cur[a]]

\* what a uniform gate call asks for: value on every adapter of the list
Request(cur, lora_list, value) ==
    [a \in DOMAIN cur |-> IF a \in Range(lora_list) THEN value ELSE cur[a]]

(* ---------------------------------------------------------------- helpers *)
Count(s, e) == Cardinality({i \in DOMAIN s : s[i] = e})

CountKind(s, k) == Cardinality({i \in DOMAIN s : s[i][1] = k})

Ev(k, who) == <<k, who>>

Raise(e) == /\ pc' = "error"
            /\ err' = e

\* text_prompt = [prompt] (lines 296-297): the text is `augments` phrases of
\* augment_text_list followed by the input prompt, or by "" when null.
InputPrompt == [null |-> FALSE, augments |-> 0]

Roles == {"spatial", "temporal"}

NothingUsed == [r \in Roles |-> {}]

\* the optimizer that owns the parameters of an adapter
OptimizerOf(a) == IF RoleOf(a) = "spatial" THEN <<"spatial", MemberOf(a)>> ELSE <<"temporal", 0>>

\* the optimizers whose adapters a forward pass reads at non-zero scale
UsedAtScale(cur) == {OptimizerOf(a) : a \in {x \in Adapters : cur[x] # ScaleOff}}

\* no helper function is being called by itself
NoCall == [fn |-> "none"]

(* ------------------------------------------------------ helper functions *)
\* shape[i] of a tensor shape, which Python indexes from 0
Dim(shape, i) == shape[i + 1]

\* lines 290-293: images (frames, H, W, C) permuted and unsqueezed to (1, frames, C, H, W)
PixelValuesShape(frames) == <<1, frames, ImageChannels, 8, 8>>

\* lines 186-196: "b f c h w" encoded frame by frame and rearranged to "b c f h w"
tensor_to_vae_latent(t) == <<Dim(t, 0), 4, Dim(t, 1), Dim(t, 3) \div 8, Dim(t, 4) \div 8>>

\* line 207: the indices torch.randint(0, pixel_values.shape[2], (1,)) can return
RanIdxRange(pixel_values) == 0..(Dim(pixel_values, 2) - 1)

\* lines 207-233 on shapes: which dimension is indexed with ran_idx, and whether
\* the index is inside it; u is the draw random.uniform(0, 1), 0 or 1
get_spatial_latents(pixel_values, cache_latents, noisy_latents, ran_idx, u) ==
    LET use_hflip == u < random_hflip_img
        indexed == IF use_hflip
                   THEN (IF ~cache_latents THEN Dim(pixel_values, 1) ELSE Dim(pixel_values, 2))
                   ELSE Dim(noisy_latents, 2)
    IN  [ran_idx |-> ran_idx, use_hflip |-> use_hflip,
         error |-> IF ran_idx < indexed THEN "none" ELSE "IndexError"]

\* a tensor (1, 1, frames, 1, 1) is the function from its frame index to the value
Tensor(frames) == [0..(frames - 1) -> -1..1]

\* alpha * x - beta * x[:, :, ran_idx, :, :].unsqueeze(2), in thousandths
Decent(x, ran_idx) == [f \in DOMAIN x |-> alpha_milli * x[f] - 1000 * beta * x[ran_idx]]

RECURSIVE SumSquares(_, _, _)
SumSquares(a, b, n) ==
    IF n = 0 THEN 0
    ELSE (a[n - 1] - b[n - 1]) * (a[n - 1] - b[n - 1]) + SumSquares(a, b, n - 1)

\* F.mse_loss(a, b, reduction="mean")
mse_loss(a, b) == SumSquares(a, b, Cardinality(DOMAIN a)) \div Cardinality(DOMAIN a)

create_ad_temporal_loss_fixed_target_pivot(model_pred, loss, target, ran_idx) ==
    loss + mse_loss(Decent(model_pred, ran_idx), Decent(target, 0))

\* lines 241-252, with the index drawn at line 244 passed in as ran_idx; losses
\* are in millionths
create_ad_temporal_loss(model_pred, loss, target, ran_idx) ==
    loss + mse_loss(Decent(model_pred, ran_idx), Decent(target, ran_idx))

\* the calls of create_ad_temporal_loss: two tensors of one shape and a base loss
TemporalLossCalls ==
    UNION {[fn : {"create_ad_temporal_loss"}, model_pred : Tensor(f),
            loss_temporal : {0, 250000}, target : Tensor(f)] : f \in 1..MaxFrames}

\* the calls of get_spatial_latents on raw input (cache_latents = False, line 332)
SpatialLatentsCalls ==
    {[fn |-> "get_spatial_latents", pixel_values |-> PixelValuesShape(f),
      cache_latents |-> FALSE,
      noisy_latents |-> tensor_to_vae_latent(PixelValuesShape(f))] : f \in 1..MaxFrames}

(* ------------------------------------------------------------------ Init *)
\* the lengths, in frames, of the clips process() is given: shorter and longer
\* than an image has channels
ClipLengths == {ImageChannels - 1, ImageChannels + 1}

StepsDomain == (Unset..MaxTrainSteps)
CheckpointingDomain == (Unset..MaxCheckpointing)

Started(augmenter) ==
    /\ pc = "configure"
    /\ err = "none"
    /\ args \in [max_train_epoch : StepsDomain, max_train_steps : StepsDomain,
                 checkpointing_steps : CheckpointingDomain,
                 checkpointing_epochs : CheckpointingDomain, frames : ClipLengths]
    /\ max_train_steps = args.max_train_steps
    /\ checkpointing_steps = args.checkpointing_steps
    /\ train_temporal_lora \in BOOLEAN
    /\ spatial_lora_num \in 1..MaxSpatialLoraNum
    /\ epoch = 0
    /\ global_step = 0
    /\ mask_spatial_lora = FALSE
    /\ mask_temporal_lora = FALSE
    /\ loss_spatial = "unbound"
    /\ loss_temporal = "unbound"
    /\ scale = [a \in Adapters |-> ScaleOn]
    /\ grad = [o \in Optimizers |-> FALSE]
    /\ opt_steps = [o \in Optimizers |-> 0]
    /\ sched_steps = [o \in Optimizers |-> 0]
    /\ scaler_updates = 0
    /\ events = <<>>
    /\ gated = [a \in Adapters |-> ScaleOn]
    /\ fwd_scale = [a \in Adapters |-> ScaleOn]
    /\ saved = {}
    /\ samples = <<>>
    /\ gradient_checkpointing_on = FALSE
    /\ io_failed = FALSE
    /\ use_text_augmenter = augmenter
    /\ text_prompt = InputPrompt
    /\ fwd_used = NothingUsed
    /\ call = NoCall
    /\ ret = NoCall

\* use_text_augmenter = False (line 335)
Init == Started(FALSE)

\* the same program with use_text_augmenter = True at line 335
AugmenterInit == Started(TRUE)

(* ------------------------------------------------- decisions of the code *)
\* lines 409-410 / 413-414: `if x == -1: assert y != -1` fails
AssertFails_unless_exactly_one(x, y) == (x = Unset) = (y = Unset)

AssertFails(x, y) == x = Unset /\ y = Unset

\* lines 409-411 / 413-415: the value of x after `if x == -1: x = y`
Effective(x, y) == IF x = Unset THEN y ELSE x

\* lines 509-512: math.ceil(max_train_steps / (math.ceil(1) / 1))
num_train_epochs == max_train_steps

\* lines 542-545
MaskTemporal(enabled) == ~enabled

\* line 547: random.uniform(0, 1) < 0.2 and not mask_temporal_lora
MaskSpatial_unconditioned(draw, mask_temporal) == draw

MaskSpatial(draw, mask_temporal) == draw /\ ~mask_temporal

\* line 725: global_step % validation_steps == 0 or global_step in validation_steps_tuple
IsValidationStep(g) == g % validation_steps = 0 \/ g \in validation_steps_tuple

\* lines 665-673: the spatial optimizer scaler.step is called on, if any
SpatialOptimizerToStep(num, g) ==
    IF num = 1 THEN {<<"spatial", 0>>}
    ELSE IF g[<<"spatial", step>>] THEN {<<"spatial", step>>} ELSE {}

\* lines 679-688: the schedules whose step() is called
SchedulesToStep_unmasked_only ==
    (IF mask_spatial_lora THEN {} ELSE {<<"spatial", 0>>})
        \cup (IF train_temporal_lora THEN {<<"temporal", 0>>} ELSE {})

SchedulesToStep ==
    (IF spatial_lora_num = 1 THEN {<<"spatial", 0>>} ELSE {<<"spatial", step>>})
        \cup (IF train_temporal_lora THEN {<<"temporal", 0>>} ELSE {})

\* a set of optimizers as a sequence of events, spatial members first
RECURSIVE EventsOf(_, _)
EventsOf(k, S) ==
    IF S = {} THEN <<>>
    ELSE LET o == CHOOSE x \in S :
                    \A y \in S : \/ x = y
                                 \/ (x[1] = "spatial" /\ y[1] = "temporal")
                                 \/ (x[1] = y[1] /\ x[2] < y[2])
         IN <<Ev(k, o)>> \o EventsOf(k, S \ {o})

(* ---------------------------------------------------------------- actions *)
\* lines 286-526: set-up; the two option pairs are resolved at 408-415
Configure ==
    /\ pc = "configure"
    /\ UNCHANGED <<use_text_augmenter, text_prompt, fwd_used, call, ret>>
    /\ IF AssertFails(args.max_train_steps, args.max_train_epoch)
       THEN /\ Raise("AssertionError")
            /\ UNCHANGED <<max_train_steps, checkpointing_steps, gradient_checkpointing_on>>
       ELSE /\ max_train_steps' = Effective(args.max_train_steps, args.max_train_epoch)
            /\ gradient_checkpointing_on' = TRUE
            /\ IF AssertFails(args.checkpointing_steps, args.checkpointing_epochs)
               THEN /\ Raise("AssertionError")
                    /\ UNCHANGED checkpointing_steps
               ELSE /\ checkpointing_steps' =
                          Effective(args.checkpointing_steps, args.checkpointing_epochs)
                    /\ pc' = "loop_head"
                    /\ UNCHANGED err
    /\ UNCHANGED <<args, train_temporal_lora, spatial_lora_num, epoch, global_step,
                   mask_spatial_lora, mask_temporal_lora, loss_spatial, loss_temporal,
                   scale, grad, opt_steps, sched_steps, scaler_updates, events, gated,
                   fwd_scale, saved, samples, io_failed>>

\* lines 528-531: for epoch in range(first_epoch, num_train_epochs): for step in range(batch_size)
LoopHead ==
    /\ pc = "loop_head"
    /\ UNCHANGED <<use_text_augmenter, text_prompt, fwd_used, call, ret>>
    /\ pc' = IF epoch < num_train_epochs THEN "zero_grad" ELSE "return"
    /\ UNCHANGED <<err, args, max_train_steps, checkpointing_steps, train_temporal_lora,
                   spatial_lora_num, epoch, global_step, mask_spatial_lora,
                   mask_temporal_lora, loss_spatial, loss_temporal, scale, grad, opt_steps,
                   sched_steps, scaler_updates, events, gated, fwd_scale, saved, samples,
                   gradient_checkpointing_on, io_failed>>

ZeroGrad_spatial_only ==
    /\ pc = "zero_grad"
    /\ fwd_used' = NothingUsed
    /\ UNCHANGED <<use_text_augmenter, text_prompt, call, ret>>
    /\ grad' = [o \in Optimizers |-> IF o[1] = "spatial" THEN FALSE ELSE grad[o]]
    /\ events' = EventsOf("zero_grad", {o \in Optimizers : o[1] = "spatial"})
    /\ pc' = "mask"
    /\ UNCHANGED <<err, args, max_train_steps, checkpointing_steps, train_temporal_lora,
                   spatial_lora_num, epoch, global_step, mask_spatial_lora,
                   mask_temporal_lora, loss_spatial, loss_temporal, scale, opt_steps,
                   sched_steps, scaler_updates, gated, fwd_scale, saved, samples,
                   gradient_checkpointing_on, io_failed>>

\* lines 535-540: zero_grad(set_to_none=True) on every optimizer
ZeroGrad ==
    /\ pc = "zero_grad"
    /\ fwd_used' = NothingUsed
    /\ UNCHANGED <<use_text_augmenter, text_prompt, call, ret>>
    /\ grad' = [o \in Optimizers |-> FALSE]
    /\ events' = EventsOf("zero_grad", Optimizers)
    /\ pc' = "mask"
    /\ UNCHANGED <<err, args, max_train_steps, checkpointing_steps, train_temporal_lora,
                   spatial_lora_num, epoch, global_step, mask_spatial_lora,
                   mask_temporal_lora, loss_spatial, loss_temporal, scale, opt_steps,
                   sched_steps, scaler_updates, gated, fwd_scale, saved, samples,
                   gradient_checkpointing_on, io_failed>>

\* lines 542-547: the masking policy; draw is random.uniform(0, 1) < 0.2
Mask ==
    /\ pc = "mask"
    /\ UNCHANGED <<use_text_augmenter, text_prompt, fwd_used, call, ret>>
    /\ \E draw \in BOOLEAN :
          /\ mask_temporal_lora' = MaskTemporal(train_temporal_lora)
          /\ mask_spatial_lora' = MaskSpatial(draw, mask_temporal_lora')
    /\ pc' = "prompt"
    /\ UNCHANGED <<err, args, max_train_steps, checkpointing_steps, train_temporal_lora,
                   spatial_lora_num, epoch, global_step, loss_spatial, loss_temporal,
                   scale, grad, opt_steps, sched_steps, scaler_updates, events, gated,
                   fwd_scale, saved, samples, gradient_checkpointing_on, io_failed>>

\* line 550: [name if random.random() > cfg_random_null_text_ratio else "" for name in text_prompt]
NullText(p, u) == IF u > cfg_random_null_text_ratio THEN p ELSE [p EXCEPT !.null = TRUE]

\* lines 552-559: [f"{augment_text} {prompt}" for prompt in text_prompt]
Augment(p) == [p EXCEPT !.augments = @ + 1]

\* lines 549-559: null-text substitution (cfg_random_null_text = True) and caption
\* augmentation, both assigned back to text_prompt; u is random.random() in
\* tenths, 0 being the draw 0.0. Lines 573-600 encode text_prompt.
Prompt ==
    /\ pc = "prompt"
    /\ \E u \in {0, 5} :
          text_prompt' = (IF use_text_augmenter THEN Augment(NullText(text_prompt, u))
                          ELSE NullText(text_prompt, u))
    /\ pc' = "spatial_gate"
    /\ UNCHANGED <<err, args, max_train_steps, checkpointing_steps, train_temporal_lora,
                   spatial_lora_num, epoch, global_step, mask_spatial_lora,
                   mask_temporal_lora, loss_spatial, loss_temporal, scale, grad, opt_steps,
                   sched_steps, scaler_updates, events, gated, fwd_scale, saved, samples,
                   gradient_checkpointing_on, io_failed, use_text_augmenter, fwd_used,
                   call, ret>>

SpatialGate_keeps_unmasked ==
    /\ pc = "spatial_gate"
    /\ UNCHANGED <<use_text_augmenter, text_prompt, fwd_used, call, ret>>
    /\ LET loras == extract_lora_child_module("spatial")
       IN IF mask_spatial_lora
          THEN /\ scale' = scale_loras(scale, loras, ScaleOff, {}, {})
               /\ gated' = Request(gated, loras, ScaleOff)
               /\ loss_spatial' = "None"
               /\ pc' = "temporal_gate"
          ELSE /\ IF spatial_lora_num = 1
                  THEN /\ scale' = scale
                       /\ gated' = Request(gated, loras, ScaleOn)
                  ELSE /\ scale' = scale_loras(scale_loras(scale, loras, ScaleOff, {}, {}),
                                               loras, ScaleOn, {step}, {spatial_lora_num})
                       /\ gated' = Request(gated, loras, ScaleOff)
               /\ pc' = "spatial_gate_temporal"
               /\ UNCHANGED loss_spatial
    /\ UNCHANGED <<err, args, max_train_steps, checkpointing_steps, train_temporal_lora,
                   spatial_lora_num, epoch, global_step, mask_spatial_lora,
                   mask_temporal_lora, loss_temporal, grad, opt_steps, sched_steps,
                   scaler_updates, events, fwd_scale, saved, samples,
                   gradient_checkpointing_on, io_failed>>

\* lines 603-613: gate the spatial adapters
SpatialGate ==
    /\ pc = "spatial_gate"
    /\ UNCHANGED <<use_text_augmenter, text_prompt, fwd_used, call, ret>>
    /\ LET loras == extract_lora_child_module("spatial")
       IN IF mask_spatial_lora
          THEN /\ scale' = scale_loras(scale, loras, ScaleOff, {}, {})
               /\ gated' = Request(gated, loras, ScaleOff)
               /\ loss_spatial' = "None"
               /\ pc' = "temporal_gate"
          ELSE /\ IF spatial_lora_num = 1
                  THEN /\ scale' = scale_loras(scale, loras, ScaleOn, {}, {})
                       /\ gated' = Request(gated, loras, ScaleOn)
                  ELSE /\ scale' = scale_loras(scale_loras(scale, loras, ScaleOff, {}, {}),
                                               loras, ScaleOn, {step}, {spatial_lora_num})
                       /\ gated' = Request(gated, loras, ScaleOff)
               /\ pc' = "spatial_gate_temporal"
               /\ UNCHANGED loss_spatial
    /\ UNCHANGED <<err, args, max_train_steps, checkpointing_steps, train_temporal_lora,
                   spatial_lora_num, epoch, global_step, mask_spatial_lora,
                   mask_temporal_lora, loss_temporal, grad, opt_steps, sched_steps,
                   scaler_updates, events, fwd_scale, saved, samples,
                   gradient_checkpointing_on, io_failed>>

\* lines 615-617: in the spatial branch the temporal adapters are gated off
SpatialGateTemporal ==
    /\ pc = "spatial_gate_temporal"
    /\ UNCHANGED <<use_text_augmenter, text_prompt, fwd_used, call, ret>>
    /\ LET loras == extract_lora_child_module("temporal")
       IN IF Len(loras) > 0
          THEN /\ scale' = scale_loras(scale, loras, ScaleOff, {}, {})
               /\ gated' = Request(gated, loras, ScaleOff)
          ELSE UNCHANGED <<scale, gated>>
    /\ pc' = "spatial_forward"
    /\ UNCHANGED <<err, args, max_train_steps, checkpointing_steps, train_temporal_lora,
                   spatial_lora_num, epoch, global_step, mask_spatial_lora,
                   mask_temporal_lora, loss_spatial, loss_temporal, grad, opt_steps,
                   sched_steps, scaler_updates, events, fwd_scale, saved, samples,
                   gradient_checkpointing_on, io_failed>>

\* lines 619-644: the spatial forward pass and its loss
SpatialForward ==
    /\ pc = "spatial_forward"
    /\ UNCHANGED <<use_text_augmenter, text_prompt, call, ret>>
    /\ \E ran_idx \in RanIdxRange(PixelValuesShape(args.frames)), u \in {0, 1} :
          LET r == get_spatial_latents(PixelValuesShape(args.frames), FALSE,
                       tensor_to_vae_latent(PixelValuesShape(args.frames)), ran_idx, u)
          IN  IF r.error # "none"
              THEN /\ Raise(r.error)
                   /\ UNCHANGED <<fwd_used, fwd_scale, loss_spatial, events>>
              ELSE /\ fwd_used' = [fwd_used EXCEPT !["spatial"] = UsedAtScale(scale)]
                   /\ fwd_scale' = scale
                   /\ loss_spatial' = "tensor"
                   /\ events' = events \o <<Ev("forward", <<"spatial", 0>>),
                                            Ev("loss", <<"spatial", 0>>)>>
                   /\ pc' = "temporal_gate"
                   /\ err' = err
    /\ UNCHANGED <<args, max_train_steps, checkpointing_steps, train_temporal_lora,
                   spatial_lora_num, epoch, global_step, mask_spatial_lora,
                   mask_temporal_lora, loss_temporal, scale, grad, opt_steps, sched_steps,
                   scaler_updates, gated, saved, samples, gradient_checkpointing_on,
                   io_failed>>

\* lines 646-653: gate the temporal adapters
TemporalGate ==
    /\ pc = "temporal_gate"
    /\ UNCHANGED <<use_text_augmenter, text_prompt, fwd_used, call, ret>>
    /\ LET loras == extract_lora_child_module("temporal")
       IN IF mask_temporal_lora
          THEN /\ scale' = scale_loras(scale, loras, ScaleOff, {}, {})
               /\ gated' = Request(gated, loras, ScaleOff)
               /\ loss_temporal' = "None"
               /\ pc' = "backward_spatial"
          ELSE /\ scale' = scale_loras(scale, loras, ScaleOn, {}, {})
               /\ gated' = Request(gated, loras, ScaleOn)
               /\ pc' = "temporal_forward"
               /\ UNCHANGED loss_temporal
    /\ UNCHANGED <<err, args, max_train_steps, checkpointing_steps, train_temporal_lora,
                   spatial_lora_num, epoch, global_step, mask_spatial_lora,
                   mask_temporal_lora, loss_spatial, grad, opt_steps, sched_steps,
                   scaler_updates, events, fwd_scale, saved, samples,
                   gradient_checkpointing_on, io_failed>>

\* lines 655-660: the temporal forward pass and its loss
TemporalForward ==
    /\ pc = "temporal_forward"
    /\ fwd_used' = [fwd_used EXCEPT !["temporal"] = UsedAtScale(scale)]
    /\ UNCHANGED <<use_text_augmenter, text_prompt, call, ret>>
    /\ fwd_scale' = scale
    /\ loss_temporal' = "tensor"
    /\ events' = events \o <<Ev("forward", <<"temporal", 0>>), Ev("loss", <<"temporal", 0>>)>>
    /\ pc' = "backward_spatial"
    /\ UNCHANGED <<err, args, max_train_steps, checkpointing_steps, train_temporal_lora,
                   spatial_lora_num, epoch, global_step, mask_spatial_lora,
                   mask_temporal_lora, loss_spatial, scale, grad, opt_steps, sched_steps,
                   scaler_updates, gated, saved, samples, gradient_checkpointing_on,
                   io_failed>>

\* lines 663-673: backward of the spatial loss through the shared scaler, then
\* scaler.step on the spatial optimizer
BackwardSpatial ==
    /\ pc = "backward_spatial"
    /\ UNCHANGED <<use_text_augmenter, text_prompt, fwd_used, call, ret>>
    /\ IF ~mask_spatial_lora
       THEN LET g == [o \in Optimizers |-> TRUE]
                stepped == SpatialOptimizerToStep(spatial_lora_num, g)
            IN /\ grad' = g
               /\ opt_steps' = [o \in Optimizers |->
                                    IF o \in stepped THEN opt_steps[o] + 1 ELSE opt_steps[o]]
               /\ events' = events \o <<Ev("backward", <<"spatial", 0>>)>>
                                   \o EventsOf("optimizer_step", stepped)
       ELSE UNCHANGED <<grad, opt_steps, events>>
    /\ pc' = "backward_temporal"
    /\ UNCHANGED <<err, args, max_train_steps, checkpointing_steps, train_temporal_lora,
                   spatial_lora_num, epoch, global_step, mask_spatial_lora,
                   mask_temporal_lora, loss_spatial, loss_temporal, scale, sched_steps,
                   scaler_updates, gated, fwd_scale, saved, samples,
                   gradient_checkpointing_on, io_failed>>

\* lines 675-677: backward of the temporal loss, then scaler.step(optimizer_temporal)
BackwardTemporal_elif ==
    /\ pc = "backward_temporal"
    /\ UNCHANGED <<use_text_augmenter, text_prompt, fwd_used, call, ret>>
    /\ IF mask_spatial_lora /\ ~mask_temporal_lora /\ train_temporal_lora
       THEN /\ grad' = [o \in Optimizers |-> TRUE]
            /\ opt_steps' = [opt_steps EXCEPT ![<<"temporal", 0>>] = @ + 1]
            /\ events' = events \o <<Ev("backward", <<"temporal", 0>>),
                                     Ev("optimizer_step", <<"temporal", 0>>)>>
       ELSE UNCHANGED <<grad, opt_steps, events>>
    /\ pc' = "schedule_steps"
    /\ UNCHANGED <<err, args, max_train_steps, checkpointing_steps, train_temporal_lora,
                   spatial_lora_num, epoch, global_step, mask_spatial_lora,
                   mask_temporal_lora, loss_spatial, loss_temporal, scale, sched_steps,
                   scaler_updates, gated, fwd_scale, saved, samples,
                   gradient_checkpointing_on, io_failed>>

BackwardTemporal ==
    /\ pc = "backward_temporal"
    /\ UNCHANGED <<use_text_augmenter, text_prompt, fwd_used, call, ret>>
    /\ IF ~mask_temporal_lora /\ train_temporal_lora
       THEN /\ grad' = [o \in Optimizers |-> TRUE]
            /\ opt_steps' = [opt_steps EXCEPT ![<<"temporal", 0>>] = @ + 1]
            /\ events' = events \o <<Ev("backward", <<"temporal", 0>>),
                                     Ev("optimizer_step", <<"temporal", 0>>)>>
       ELSE UNCHANGED <<grad, opt_steps, events>>
    /\ pc' = "schedule_steps"
    /\ UNCHANGED <<err, args, max_train_steps, checkpointing_steps, train_temporal_lora,
                   spatial_lora_num, epoch, global_step, mask_spatial_lora,
                   mask_temporal_lora, loss_spatial, loss_temporal, scale, sched_steps,
                   scaler_updates, gated, fwd_scale, saved, samples,
                   gradient_checkpointing_on, io_failed>>

\* lines 679-688: the learning-rate schedules
ScheduleSteps ==
    /\ pc = "schedule_steps"
    /\ UNCHANGED <<use_text_augmenter, text_prompt, fwd_used, call, ret>>
    /\ sched_steps' = [o \in Optimizers |->
                          IF o \in SchedulesToStep THEN sched_steps[o] + 1 ELSE sched_steps[o]]
    /\ events' = events \o EventsOf("schedule_step", SchedulesToStep)
    /\ pc' = "scaler_update"
    /\ UNCHANGED <<err, args, max_train_steps, checkpointing_steps, train_temporal_lora,
                   spatial_lora_num, epoch, global_step, mask_spatial_lora,
                   mask_temporal_lora, loss_spatial, loss_temporal, scale, grad, opt_steps,
                   scaler_updates, gated, fwd_scale, saved, samples,
                   gradient_checkpointing_on, io_failed>>

\* lines 690-693: scaler.update() and global_step += 1
ScalerUpdate_per_role ==
    /\ pc = "scaler_update"
    /\ UNCHANGED <<use_text_augmenter, text_prompt, fwd_used, call, ret>>
    /\ LET n == CountKind(events, "backward")
       IN /\ scaler_updates' = scaler_updates + n
          /\ events' = events \o [i \in 1..n |-> Ev("scaler_update", <<"scaler", 0>>)]
    /\ global_step' = global_step + 1
    /\ pc' = "checkpoint"
    /\ UNCHANGED <<err, args, max_train_steps, checkpointing_steps, train_temporal_lora,
                   spatial_lora_num, epoch, mask_spatial_lora, mask_temporal_lora,
                   loss_spatial, loss_temporal, scale, grad, opt_steps, sched_steps, gated,
                   fwd_scale, saved, samples, gradient_checkpointing_on, io_failed>>

ScalerUpdate ==
    /\ pc = "scaler_update"
    /\ UNCHANGED <<use_text_augmenter, text_prompt, fwd_used, call, ret>>
    /\ scaler_updates' = scaler_updates + 1
    /\ events' = events \o <<Ev("scaler_update", <<"scaler", 0>>)>>
    /\ global_step' = global_step + 1
    /\ pc' = "checkpoint"
    /\ UNCHANGED <<err, args, max_train_steps, checkpointing_steps, train_temporal_lora,
                   spatial_lora_num, epoch, mask_spatial_lora, mask_temporal_lora,
                   loss_spatial, loss_temporal, scale, grad, opt_steps, sched_steps, gated,
                   fwd_scale, saved, samples, gradient_checkpointing_on, io_failed>>

Checkpoint_labels_epoch ==
    /\ pc = "checkpoint"
    /\ UNCHANGED <<use_text_augmenter, text_prompt, fwd_used, call, ret>>
    /\ IF checkpointing_steps = 0
       THEN /\ Raise("ZeroDivisionError")
            /\ UNCHANGED <<saved, events, io_failed>>
       ELSE IF global_step % checkpointing_steps = 0
       THEN \E failing \in {"none", "spatial", "temporal"} :
              /\ failing = "temporal" => train_temporal_lora
              /\ saved' = saved
                    \cup (IF failing # "spatial" THEN {<<"spatial", epoch>>} ELSE {})
                    \cup (IF failing = "none" /\ train_temporal_lora
                          THEN {<<"temporal", global_step>>} ELSE {})
              /\ IF failing = "none"
                 THEN /\ events' = events \o <<Ev("checkpoint", <<"storage", global_step>>)>>
                      /\ pc' = "validation"
                      /\ UNCHANGED <<err, io_failed>>
                 ELSE /\ Raise("OSError")
                      /\ io_failed' = TRUE
                      /\ UNCHANGED events
       ELSE /\ pc' = "validation"
            /\ UNCHANGED <<err, saved, events, io_failed>>
    /\ UNCHANGED <<args, max_train_steps, checkpointing_steps, train_temporal_lora,
                   spatial_lora_num, epoch, global_step, mask_spatial_lora,
                   mask_temporal_lora, loss_spatial, loss_temporal, scale, grad, opt_steps,
                   sched_steps, scaler_updates, gated, fwd_scale, samples,
                   gradient_checkpointing_on>>

\* lines 695-722: the checkpoint; save_lora_weights writes to storage and may raise.
\* failing is the save that raises: "none", "spatial" or "temporal".
Checkpoint ==
    /\ pc = "checkpoint"
    /\ UNCHANGED <<use_text_augmenter, text_prompt, fwd_used, call, ret>>
    /\ IF checkpointing_steps = 0
       THEN /\ Raise("ZeroDivisionError")
            /\ UNCHANGED <<saved, events, io_failed>>
       ELSE IF global_step % checkpointing_steps = 0
       THEN \E failing \in {"none", "spatial", "temporal"} :
              /\ failing = "temporal" => train_temporal_lora
              /\ saved' = saved
                    \cup (IF failing # "spatial" THEN {<<"spatial", global_step>>} ELSE {})
                    \cup (IF failing = "none" /\ train_temporal_lora
                          THEN {<<"temporal", global_step>>} ELSE {})
              /\ IF failing = "none"
                 THEN /\ events' = events \o <<Ev("checkpoint", <<"storage", global_step>>)>>
                      /\ pc' = "validation"
                      /\ UNCHANGED <<err, io_failed>>
                 ELSE /\ Raise("OSError")
                      /\ io_failed' = TRUE
                      /\ UNCHANGED events
       ELSE /\ pc' = "validation"
            /\ UNCHANGED <<err, saved, events, io_failed>>
    /\ UNCHANGED <<args, max_train_steps, checkpointing_steps, train_temporal_lora,
                   spatial_lora_num, epoch, global_step, mask_spatial_lora,
                   mask_temporal_lora, loss_spatial, loss_temporal, scale, grad, opt_steps,
                   sched_steps, scaler_updates, gated, fwd_scale, samples,
                   gradient_checkpointing_on>>

\* lines 724-770: validation; save_videos_grid writes the sample and may raise
Validation ==
    /\ pc = "validation"
    /\ UNCHANGED <<use_text_augmenter, text_prompt, fwd_used, call, ret>>
    /\ IF IsValidationStep(global_step)
       THEN LET loras == extract_lora_child_module("spatial")
            IN /\ gradient_checkpointing_on' = FALSE
               /\ scale' = scale_loras(scale, loras, validation_spatial_scale, {}, {})
               /\ gated' = Request(gated, loras, validation_spatial_scale)
               /\ \E ok \in BOOLEAN :
                     IF ok
                     THEN /\ samples' = <<global_step>>
                          /\ events' = events \o <<Ev("validation", <<"sampler", global_step>>)>>
                          /\ pc' = "logs"
                          /\ UNCHANGED <<err, io_failed>>
                     ELSE /\ Raise("OSError")
                          /\ io_failed' = TRUE
                          /\ UNCHANGED <<samples, events>>
       ELSE /\ pc' = "logs"
            /\ UNCHANGED <<err, scale, gated, samples, events, gradient_checkpointing_on,
                           io_failed>>
    /\ UNCHANGED <<args, max_train_steps, checkpointing_steps, train_temporal_lora,
                   spatial_lora_num, epoch, global_step, mask_spatial_lora,
                   mask_temporal_lora, loss_spatial, loss_temporal, grad, opt_steps,
                   sched_steps, scaler_updates, fwd_scale, saved>>

\* lines 772-778: the progress-bar logs read loss_temporal.detach()
Logs ==
    /\ pc = "logs"
    /\ UNCHANGED <<use_text_augmenter, text_prompt, fwd_used, call, ret>>
    /\ IF loss_temporal = "None"
       THEN Raise("AttributeError")
       ELSE /\ pc' = "end_of_step"
            /\ UNCHANGED err
    /\ UNCHANGED <<args, max_train_steps, checkpointing_steps, train_temporal_lora,
                   spatial_lora_num, epoch, global_step, mask_spatial_lora,
                   mask_temporal_lora, loss_spatial, loss_temporal, scale, grad, opt_steps,
                   sched_steps, scaler_updates, events, gated, fwd_scale, saved, samples,
                   gradient_checkpointing_on, io_failed>>

EndOfStep_leaves_checkpointing ==
    /\ pc = "end_of_step"
    /\ UNCHANGED <<use_text_augmenter, text_prompt, fwd_used, call, ret>>
    /\ gradient_checkpointing_on' = gradient_checkpointing_on
    /\ epoch' = epoch + 1
    /\ pc' = "loop_head"
    /\ UNCHANGED <<err, args, max_train_steps, checkpointing_steps, train_temporal_lora,
                   spatial_lora_num, global_step, mask_spatial_lora, mask_temporal_lora,
                   loss_spatial, loss_temporal, scale, grad, opt_steps, sched_steps,
                   scaler_updates, events, gated, fwd_scale, saved, samples, io_failed>>

\* lines 780-784: gradient checkpointing back on; `break` leaves the inner loop,
\* whose only iteration (step = 0 of range(batch_size)) ends here either way
EndOfStep ==
    /\ pc = "end_of_step"
    /\ UNCHANGED <<use_text_augmenter, text_prompt, fwd_used, call, ret>>
    /\ gradient_checkpointing_on' = TRUE
    /\ epoch' = epoch + 1
    /\ pc' = "loop_head"
    /\ UNCHANGED <<err, args, max_train_steps, checkpointing_steps, train_temporal_lora,
                   spatial_lora_num, global_step, mask_spatial_lora, mask_temporal_lora,
                   loss_spatial, loss_temporal, scale, grad, opt_steps, sched_steps,
                   scaler_updates, events, gated, fwd_scale, saved, samples, io_failed>>

\* line 785: return samples,
Return ==
    /\ pc = "return"
    /\ UNCHANGED <<use_text_augmenter, text_prompt, fwd_used, call, ret>>
    /\ IF samples = <<>>
       THEN Raise("UnboundLocalError")
       ELSE /\ pc' = "returned"
            /\ UNCHANGED err
    /\ UNCHANGED <<args, max_train_steps, checkpointing_steps, train_temporal_lora,
                   spatial_lora_num, epoch, global_step, mask_spatial_lora,
                   mask_temporal_lora, loss_spatial, loss_temporal, scale, grad, opt_steps,
                   sched_steps, scaler_updates, events, gated, fwd_scale, saved, samples,
                   gradient_checkpointing_on, io_failed>>

Next ==
    \/ Configure
    \/ LoopHead
    \/ ZeroGrad
    \/ Mask
    \/ Prompt
    \/ SpatialGate
    \/ SpatialGateTemporal
    \/ SpatialForward
    \/ TemporalGate
    \/ TemporalForward
    \/ BackwardSpatial
    \/ BackwardTemporal
    \/ ScheduleSteps
    \/ ScalerUpdate
    \/ Checkpoint
    \/ Validation
    \/ Logs
    \/ EndOfStep
    \/ Return

Spec == Init /\ [][Next]_vars

\* the procedure is one thread that runs until it returns or raises
FairSpec == Spec /\ WF_vars(Next)

AugmenterSpec == AugmenterInit /\ [][Next]_vars

(* ------------------------------------- the helper functions by themselves *)
\* process() is not running: everything it owns is as it is before Configure
\* of a run with the node's default widget values
NotStarted ==
    /\ err = "none"
    /\ args = [max_train_epoch |-> 300, max_train_steps |-> Unset,
               checkpointing_steps |-> 100, checkpointing_epochs |-> Unset,
               frames |-> ImageChannels]
    /\ max_train_steps = args.max_train_steps
    /\ checkpointing_steps = args.checkpointing_steps
    /\ train_temporal_lora = TRUE
    /\ spatial_lora_num = 1
    /\ epoch = 0
    /\ global_step = 0
    /\ mask_spatial_lora = FALSE
    /\ mask_temporal_lora = FALSE
    /\ loss_spatial = "unbound"
    /\ loss_temporal = "unbound"
    /\ scale = [a \in Adapters |-> ScaleOn]
    /\ grad = [o \in Optimizers |-> FALSE]
    /\ opt_steps = [o \in Optimizers |-> 0]
    /\ sched_steps = [o \in Optimizers |-> 0]
    /\ scaler_updates = 0
    /\ events = <<>>
    /\ gated = [a \in Adapters |-> ScaleOn]
    /\ fwd_scale = [a \in Adapters |-> ScaleOn]
    /\ saved = {}
    /\ samples = <<>>
    /\ gradient_checkpointing_on = FALSE
    /\ io_failed = FALSE
    /\ use_text_augmenter = FALSE
    /\ text_prompt = InputPrompt
    /\ fwd_used = NothingUsed

FnInit ==
    /\ pc = "fn_call"
    /\ call \in TemporalLossCalls \cup SpatialLatentsCalls
    /\ ret = NoCall
    /\ NotStarted

\* lines 235-252
CallTemporalLoss ==
    /\ pc = "fn_call"
    /\ call.fn = "create_ad_temporal_loss"
    /\ \E ran_idx \in DOMAIN call.model_pred :
          ret' = [fn |-> call.fn, ran_idx |-> ran_idx,
                  loss_temporal |-> create_ad_temporal_loss(call.model_pred,
                                        call.loss_temporal, call.target, ran_idx)]
    /\ pc' = "fn_done"
    /\ UNCHANGED <<err, args, max_train_steps, checkpointing_steps, train_temporal_lora,
                   spatial_lora_num, epoch, global_step, mask_spatial_lora,
                   mask_temporal_lora, loss_spatial, loss_temporal, scale, grad, opt_steps,
                   sched_steps, scaler_updates, events, gated, fwd_scale, saved, samples,
                   gradient_checkpointing_on, io_failed, use_text_augmenter, text_prompt,
                   fwd_used, call>>

\* lines 198-233
CallSpatialLatents ==
    /\ pc = "fn_call"
    /\ call.fn = "get_spatial_latents"
    /\ \E ran_idx \in RanIdxRange(call.pixel_values), u \in {0, 1} :
          ret' = [fn |-> call.fn] @@ get_spatial_latents(call.pixel_values,
                      call.cache_latents, call.noisy_latents, ran_idx, u)
    /\ pc' = "fn_done"
    /\ UNCHANGED <<err, args, max_train_steps, checkpointing_steps, train_temporal_lora,
                   spatial_lora_num, epoch, global_step, mask_spatial_lora,
                   mask_temporal_lora, loss_spatial, loss_temporal, scale, grad, opt_steps,
                   sched_steps, scaler_updates, events, gated, fwd_scale, saved, samples,
                   gradient_checkpointing_on, io_failed, use_text_augmenter, text_prompt,
                   fwd_used, call>>

FnNext ==
    \/ CallTemporalLoss
    \/ CallSpatialLatents

FnSpec == FnInit /\ [][FnNext]_vars

(* ------------------------------------------------- positions of the step *)
\* inside a training step, the masks of this step drawn, scaler.update() not yet called
BeforeUpdate ==
    pc \in {"prompt", "spatial_gate", "spatial_gate_temporal", "spatial_forward", "temporal_gate",
            "temporal_forward", "backward_spatial", "backward_temporal", "schedule_steps",
            "scaler_update"}

\* the masks of the current (or last) step have been drawn
MaskDrawn == BeforeUpdate \/ (global_step > 0 /\ pc # "mask")

\* the last step has run through scaler.update(); events is that step's record
StepCompleted ==
    /\ global_step > 0
    /\ pc # "mask"
    /\ ~BeforeUpdate
    /\ ~(pc = "error" /\ err = "IndexError")

\* an exception raised inside a training step by the step's own code
StepError == pc = "error" /\ err \in {"ZeroDivisionError", "AttributeError"}

BothUnset(x, y) == x = Unset /\ y = Unset
BothSet(x, y) == x # Unset /\ y # Unset
ExactlyOneUnset(x, y) == (x = Unset) # (y = Unset)

TemporalOpt == <<"temporal", 0>>
SpatialOpt(m) == <<"spatial", m>>

(* ================================================================ claims *)

\* C1: in every training step, for either setting of train_temporal_lora and
\* every outcome of the random draw, the two masks are never both true:
\* temporal is masked iff temporal training is disabled, and spatial can be
\* masked only in a step where temporal is not masked.
C1_MasksNeverBoth ==
    MaskDrawn =>
        /\ ~(mask_spatial_lora /\ mask_temporal_lora)
        /\ mask_temporal_lora = ~train_temporal_lora
        /\ mask_spatial_lora => ~mask_temporal_lora

\* a step in which the draw masked the spatial role
C1_Witness ==
    /\ pc = "temporal_forward"
    /\ mask_spatial_lora
    /\ ~mask_temporal_lora

\* C2 (as stated): once the loop has been entered with a budget B >= 1 and no
\* call to storage has raised, the run ends only with global_step = B.
C2_Claim_ExactlyBSteps ==
    ( /\ pc \in {"returned", "error"}
      /\ err # "AssertionError"
      /\ ~io_failed
      /\ max_train_steps >= 1 )
        => global_step = max_train_steps

C5_OptimizerSteppedIffUnmasked ==
    StepCompleted =>
        /\ train_temporal_lora =>
              /\ ~mask_temporal_lora
              /\ Count(events, Ev("optimizer_step", TemporalOpt)) = 1
              /\ opt_steps[TemporalOpt] = global_step
        /\ ~train_temporal_lora =>
              /\ mask_temporal_lora
              /\ CountKind(events, "optimizer_step")
                    = Count(events, Ev("optimizer_step", SpatialOpt(0)))
        /\ spatial_lora_num = 1 =>
              Count(events, Ev("optimizer_step", SpatialOpt(0)))
                  = (IF mask_spatial_lora THEN 0 ELSE 1)

\* a completed step in which both roles were active, after one in which
\* the spatial role was masked
C5_Witness ==
    /\ StepCompleted
    /\ spatial_lora_num = 1
    /\ ~mask_spatial_lora
    /\ global_step = 2
    /\ opt_steps[SpatialOpt(0)] = 1
    /\ opt_steps[TemporalOpt] = 2

RECURSIVE SpatialOptSteps(_)
\* scaler.step calls on the spatial optimizers of members 0..m
SpatialOptSteps(m) ==
    IF m < 0 THEN 0 ELSE opt_steps[SpatialOpt(m)] + SpatialOptSteps(m - 1)

C7_OneScalerUpdatePerStep ==
    /\ scaler_updates = global_step
    /\ (BeforeUpdate \/ pc = "mask") => CountKind(events, "scaler_update") = 0
    /\ StepCompleted =>
          /\ CountKind(events, "scaler_update") = 1
          /\ \A i, j \in DOMAIN events :
                (/\ events[i][1] \in {"backward", "optimizer_step"}
                 /\ events[j][1] = "scaler_update") => i < j

\* a completed step in which both roles ran their backward pass
C7_Witness ==
    /\ StepCompleted
    /\ CountKind(events, "backward") = 2
    /\ CountKind(events, "optimizer_step") = 2
    /\ global_step = 2

C9_Claim_SaveFailureDoesNotAbort ==
    io_failed => pc # "error"

\* the scale of every uniformly gated adapter is the value of the last gate
\* call on it, and a forward pass reads that value
ScaleIsGated ==
    \A a \in Adapters :
        (RoleOf(a) = "temporal" \/ spatial_lora_num = 1) =>
            /\ scale[a] = gated[a]
            /\ (pc = "temporal_gate" /\ ~mask_spatial_lora) => fwd_scale[a] = gated[a]
            /\ (pc = "backward_spatial" /\ ~mask_temporal_lora) => fwd_scale[a] = gated[a]

\* a gate call on one role leaves the scales of the other role as they were
RoleFrame ==
    /\ pc \in {"spatial_gate", "validation"} =>
          \A a \in Adapters : RoleOf(a) = "temporal" => scale'[a] = scale[a]
    /\ pc \in {"spatial_gate_temporal", "temporal_gate"} =>
          \A a \in Adapters : RoleOf(a) = "spatial" => scale'[a] = scale[a]

\* C10: a uniform gate call scale_loras(adapters, value) sets the scale of
\* every adapter of the list to value and leaves every other adapter's scale
\* unchanged; in the training loop, gating one role never changes the scale
\* of an adapter of the other role, and the new scale is the one the next
\* forward pass reads.
C10_UniformGate == []ScaleIsGated /\ [][RoleFrame]_vars

\* the temporal forward pass of a step whose spatial role is masked: the two
\* roles hold different scales
C10_Witness ==
    /\ pc = "backward_spatial"
    /\ mask_spatial_lora
    /\ ~mask_temporal_lora
    /\ \A a \in Adapters :
          fwd_scale[a] = (IF RoleOf(a) = "spatial" THEN ScaleOff ELSE ScaleOn)

(* ---------------------------------------------------------------- C11 *)
TemporalLossReturned == pc = "fn_done" /\ ret.fn = "create_ad_temporal_loss"

\* C11: when create_ad_temporal_loss is called with model_pred and target the
\* same tensor, the decentered term is 0 whichever frame was drawn as the
\* pivot, and the loss returned is the base loss passed in.
C11_IdenticalTensorsAddNothing ==
    (TemporalLossReturned /\ call.model_pred = call.target)
        => ret.loss_temporal = call.loss_temporal

\* identical tensors that are not constant over the frames, decentered on a
\* frame other than the first
C11_Witness ==
    /\ TemporalLossReturned
    /\ call.model_pred = call.target
    /\ ret.ran_idx > 0
    /\ call.model_pred[ret.ran_idx] # call.model_pred[0]
    /\ call.loss_temporal > 0
    /\ ret.loss_temporal = call.loss_temporal

(* ---------------------------------------------------------------- C12 *)
\* the place of a kind of event in the order of a training step
Rank(k) ==
    CASE k = "zero_grad" -> 0
      [] k = "forward" -> 1
      [] k = "loss" -> 2
      [] k = "backward" -> 3
      [] k = "optimizer_step" -> 4
      [] k = "schedule_step" -> 5
      [] OTHER -> 6

\* the events of a role: those of its forward and backward pass and of its optimizers
OfRole(e, r) == e[2][1] = r

RoleActive(r) == IF r = "spatial" THEN ~mask_spatial_lora ELSE ~mask_temporal_lora

\* the events of each role so far are in the order of Rank, one of each kind
\* (one zero-grad for each optimizer)
EventsInOrder ==
    \A r \in Roles : \A i, j \in DOMAIN events :
        (i < j /\ OfRole(events[i], r) /\ OfRole(events[j], r)) =>
            \/ Rank(events[i][1]) < Rank(events[j][1])
            \/ events[i][1] = "zero_grad" /\ events[j][1] = "zero_grad"
                  /\ events[i] # events[j]

\* every optimizer is zeroed, once, before anything else of the step
ZeroedFirst ==
    (pc = "mask" \/ BeforeUpdate \/ StepCompleted) =>
        /\ \A o \in Optimizers : Count(events, Ev("zero_grad", o)) = 1
        /\ \A i, j \in DOMAIN events :
              (events[i][1] = "zero_grad" /\ events[j][1] # "zero_grad") => i < j

\* C12: within a training step the events of every active role occur in the
\* order zero-grad, forward, loss, backward, optimizer step, schedule step;
\* every optimizer (temporal and every spatial member) is zeroed at the start
\* of the step before any forward pass; an optimizer is stepped at most once
\* in a step, one step after the other.
C12_StrictOrderInStep ==
    /\ EventsInOrder
    /\ ZeroedFirst
    /\ \A o \in Optimizers : Count(events, Ev("optimizer_step", o)) <= 1
    /\ StepCompleted =>
          \A r \in Roles : RoleActive(r) =>
              /\ \A k \in {"forward", "loss", "backward"} : Count(events, Ev(k, <<r, 0>>)) = 1
              /\ \E o \in Optimizers : o[1] = r /\ Count(events, Ev("optimizer_step", o)) = 1
              /\ \E o \in Optimizers : o[1] = r /\ Count(events, Ev("schedule_step", o)) = 1

\* the second step has completed with both roles active
C12_Witness ==
    /\ StepCompleted
    /\ global_step = 2
    /\ RoleActive("spatial")
    /\ RoleActive("temporal")
    /\ CountKind(events, "zero_grad") = Cardinality(Optimizers)
    /\ CountKind(events, "optimizer_step") = 2
    /\ CountKind(events, "schedule_step") = 2

(* ---------------------------------------------------------------- C13 *)
\* a training forward pass is about to read the scales
AtForward == pc \in {"spatial_forward", "temporal_forward"}

\* C13: the validation scale set on the spatial adapters during a validation
\* never reaches a training forward pass: at every spatial or temporal
\* forward pass, the one right after a validation included, every spatial
\* adapter has scale 0 when the spatial role is masked in the step and, when
\* it is not, scale 1 (with an ensemble: 1 or 0, see C14); at every temporal
\* forward pass every temporal adapter has scale 1; no forward pass has read
\* the validation scale.
C13_ValidationScaleNeverInForward ==
    /\ AtForward =>
          \A a \in Adapters : RoleOf(a) = "spatial" =>
              /\ scale[a] \in {ScaleOff, ScaleOn}
              /\ mask_spatial_lora => scale[a] = ScaleOff
              /\ (~mask_spatial_lora /\ spatial_lora_num = 1) => scale[a] = ScaleOn
    /\ pc = "temporal_forward" =>
          \A a \in Adapters : RoleOf(a) = "temporal" => scale[a] = ScaleOn
    /\ \A a \in Adapters : fwd_scale[a] \in {ScaleOff, ScaleOn}

\* the step right after the validation of step 2, the spatial role not
\* masked: the temporal forward pass is about to read the spatial adapters
\* the validation had left at the validation scale
C13_Witness ==
    /\ pc = "temporal_forward"
    /\ global_step = 2
    /\ samples = <<2>>
    /\ ~mask_spatial_lora
    /\ spatial_lora_num = 1
    /\ \A a \in Adapters : scale[a] = ScaleOn

(* ---------------------------------------------------------------- C14 *)
\* the scales are those of a spatial forward pass with member m active
SpatialBranchScales(cur, m) ==
    \A a \in Adapters :
        cur[a] = (IF RoleOf(a) = "spatial" /\ MemberOf(a) = m THEN ScaleOn ELSE ScaleOff)

\* C14: at every spatial-branch forward pass every temporal adapter has scale
\* 0 and the adapters of exactly one spatial member have scale 1, the
\* adapters of every other member of an ensemble having scale 0 (without an
\* ensemble the one member is all the spatial adapters).
C14_SpatialBranchGates ==
    /\ pc = "spatial_forward" =>
          \E m \in 0..(spatial_lora_num - 1) : SpatialBranchScales(scale, m)
    /\ (pc = "temporal_gate" /\ ~mask_spatial_lora) =>
          \E m \in 0..(spatial_lora_num - 1) : SpatialBranchScales(fwd_scale, m)

\* a spatial forward pass of an ensemble of two, with temporal adapters
\* injected, has read the scales
C14_Witness ==
    /\ pc = "temporal_gate"
    /\ ~mask_spatial_lora
    /\ spatial_lora_num = 2
    /\ train_temporal_lora
    /\ global_step = 1
    /\ SpatialBranchScales(fwd_scale, step)

(* ---------------------------------------------------------------- C15 *)
\* the artifacts written so far carry the number of a completed step, and a
\* checkpoint of this step comes after every backward pass, optimizer step
\* and the scaler update of the step
CheckpointsAfterUpdate ==
    /\ \A x \in saved : x[2] >= 1 /\ x[2] <= scaler_updates /\ x[2] <= global_step
    /\ \A j \in DOMAIN events : events[j][1] = "checkpoint" =>
          /\ events[j][2][2] = global_step
          /\ global_step = scaler_updates
          /\ CountKind(events, "scaler_update") = 1
          /\ CountKind(events, "backward") = CountKind(events, "optimizer_step")
          /\ \A i \in DOMAIN events :
                events[i][1] \in {"backward", "optimizer_step", "schedule_step",
                                  "scaler_update"} => i < j

\* an artifact is written only by the checkpoint stage of a step, after the
\* scaler update that completed the step and before the next zero-grad, and
\* it carries the number of steps completed
SavedOnlyAtCheckpoint ==
    saved' # saved =>
        /\ pc = "checkpoint"
        /\ saved \subseteq saved'
        /\ CountKind(events, "scaler_update") = 1
        /\ CountKind(events, "backward") = CountKind(events, "optimizer_step")
        /\ \A x \in saved' \ saved : x[2] = global_step /\ x[2] = scaler_updates

\* C15: every checkpoint save happens after all optimizer steps and the scaler
\* update of the step that advanced global_step to the checkpointed value and
\* before the next step's zero-grad, never between a backward pass and the
\* optimizer step that consumes it, and the step number of the artifact is
\* the number of completed steps.
C15_CheckpointAfterCompletedStep == []CheckpointsAfterUpdate /\ [][SavedOnlyAtCheckpoint]_vars

\* both roles' artifacts of step 2 are written, after both optimizers stepped
C15_Witness ==
    /\ pc = "validation"
    /\ global_step = 2
    /\ checkpointing_steps = 2
    /\ saved = {<<"spatial", 2>>, <<"temporal", 2>>}
    /\ CountKind(events, "optimizer_step") = 2
    /\ CountKind(events, "checkpoint") = 1

(* ---------------------------------------------------------------- C16 *)
\* the validation sampler has run in this step
SamplerRan == CountKind(events, "validation") = 1

\* C16: gradient checkpointing is disabled throughout every validation sampler
\* invocation (from before the sampler is called until the step's logs are
\* written) and enabled at every training forward pass: after a validation it
\* is enabled again before the next step's first forward pass.
C16_GradientCheckpointing ==
    /\ (pc \in {"zero_grad", "mask"} \/ BeforeUpdate) => gradient_checkpointing_on
    /\ (SamplerRan /\ pc \in {"logs", "end_of_step"}) => ~gradient_checkpointing_on

\* the first forward pass of the step after the validation of step 2
C16_Witness ==
    /\ AtForward
    /\ global_step = 2
    /\ samples = <<2>>
    /\ gradient_checkpointing_on

(* ---------------------------------------------------------------- C17 *)
\* the number of frames of a raw clip (batch, frames, channels, height, width)
FramesOf(pixel_values) == Dim(pixel_values, 1)

\* C17 (as stated): on raw input the frame index get_spatial_latents draws
\* ranges over exactly the frames of the clip, every index in [0, F) and no
\* other, so that slicing the noised latents and the target at the index is
\* always in bounds.
C17_Claim_IndexInsideClip ==
    (pc = "fn_done" /\ ret.fn = "get_spatial_latents") =>
        /\ RanIdxRange(call.pixel_values) = 0..(FramesOf(call.pixel_values) - 1)
        /\ ret.ran_idx < FramesOf(call.pixel_values)
        /\ ret.error = "none"

(* ---------------------------------------------------------------- C18 *)
\* C18 (as stated): the prompt encoded in a training step is derived from the
\* original input prompt: each step starts from the input prompt, and what it
\* encodes is the input prompt or the empty string with at most one
\* augmentation phrase prepended; nothing of one step's substitution or
\* augmentation carries over to a later step.
C18_Claim_PromptFromOriginal ==
    /\ pc = "prompt" => text_prompt = InputPrompt
    /\ text_prompt.augments <= 1

(* ---------------------------------------------------------------- C19 *)
\* C19 (as stated): within a training step no optimizer step changes adapter
\* parameters between a forward pass that read them at non-zero scale and the
\* backward pass of the loss of that forward pass.
C19_Claim_NoStepBetweenForwardAndBackward ==
    \A r \in Roles : \A f, i, j \in DOMAIN events :
        (/\ events[f] = Ev("forward", <<r, 0>>)
         /\ events[j] = Ev("backward", <<r, 0>>)
         /\ f < i
         /\ i < j
         /\ events[i][1] = "optimizer_step")
            => events[i][2] \notin fwd_used[r]

(* ---------------------------------------------------------------- C20 *)
\* C20 (as stated): for every step budget max_train_steps >= 1 process()
\* returns a defined result: when the loop has ended at least one validation
\* has run, and the value returned is the sample of the most recent
\* validation step.
C20_Claim_ReturnsDefinedResult ==
    /\ (pc = "return" /\ max_train_steps >= 1) =>
          /\ samples # <<>>
          /\ \E g \in 1..global_step : IsValidationStep(g) /\ samples = <<g>>
    /\ (pc = "error" /\ max_train_steps >= 1) => err # "UnboundLocalError"

====
